---- MODULE Spec2Model ----
(***************************************************************************)
(* OSC99 packet engine (OscPacket.c) and contents classifier (OscCommon.c).*)
(*                                                                         *)
(* The packet is a byte buffer `contents`, a `size` and a `processMessage` *)
(* function pointer.  OscPacketProcessMessages runs DeconstructContents,   *)
(* modelled as a machine over an explicit call stack: one frame per        *)
(* activation of DeconstructContents, one action per branch of its body.   *)
(* The message and bundle codecs (OscMessage.c, OscBundle.c) are           *)
(* collaborators outside OscPacket.c; they are modelled on a reduced wire  *)
(* format:                                                                 *)
(*     message := '/' followed by NUL padding bytes                        *)
(*     bundle  := '#' timeTag { elementSize elementContents }              *)
(* with one model byte for the time tag and one for an element size.       *)
(***************************************************************************)
EXTENDS Integers, Sequences, FiniteSets, TLC

VARIABLES
    contents,        \* oscPacket->contents : [0 .. MAX_OSC_PACKET_SIZE-1 -> byte]
    size,            \* oscPacket->size
    processMessage,  \* oscPacket->processMessage
    initialised,     \* an initialiser has written oscPacket->size
    stack,           \* activations of DeconstructContents, innermost last
    ret,             \* value returned by the activation that ended last
    mode,            \* "idle" | "processing" (inside OscPacketProcessMessages)
    op,              \* the API call made last
    arg,             \* its byte argument (source / contents), <<>> if none
    pre,             \* size, processMessage and the previous call's op and error
                     \* when that call was entered
    error,           \* the OscError that call returned ("running" until it returns)
    calls,           \* invocations of processMessage made by that call
    touched,         \* that call read the buffer or called a collaborator
    log,             \* classifier and collaborator applications of that call
    nCalls           \* number of API calls made so far

vars == <<contents, size, processMessage, initialised, stack, ret, mode,
          op, arg, pre, error, calls, touched, log, nCalls>>

----------------------------------------------------------------------------
(* Bounds of the model *)

\* Capacity of the packet buffer, scaled down from the library's value.
MAX_OSC_PACKET_SIZE == 9

\* API calls per behaviour.
MaxCalls == 3

----------------------------------------------------------------------------
(* Values *)

Slash == 47   \* '/'
Hash == 35    \* '#'

NULL == "NULL"
ProcessMessage == "ProcessMessage"   \* the application's handler
Indeterminate == "Indeterminate"     \* a pointer field never written

\* const OscTimeTag * : <<>> for NULL, <<t>> for the address of time tag t
NoTimeTag == <<>>

OscErrorNone == "OscErrorNone"
OscErrorInvalidContents == "OscErrorInvalidContents"
OscErrorPacketSizeTooLarge == "OscErrorPacketSizeTooLarge"
OscErrorContentsEmpty == "OscErrorContentsEmpty"
OscErrorCallbackFunctionUndefined == "OscErrorCallbackFunctionUndefined"
\* errors of the collaborators
OscErrorMessageMalformed == "OscErrorMessageMalformed"
OscErrorBundleSizeTooSmall == "OscErrorBundleSizeTooSmall"
OscErrorInvalidElementSize == "OscErrorInvalidElementSize"

Running == "running"

BufferIndex == 0 .. (MAX_OSC_PACKET_SIZE - 1)

----------------------------------------------------------------------------
(* OscCommon.c : the classifier, applied to the first byte of a span *)

OscContentsIsMessage(firstByte) == firstByte = Slash

\* Mutant: the bundle test compares with the message's leading byte.
OscContentsIsBundleSlash(firstByte) == firstByte = Slash

OscContentsIsBundle(firstByte) == firstByte = Hash

----------------------------------------------------------------------------
(* Wire format helpers used to write the inputs *)

Element(c) == <<Len(c)>> \o c

RECURSIVE Elements(_)
Elements(cs) == IF cs = <<>> THEN <<>> ELSE Element(Head(cs)) \o Elements(Tail(cs))

Bundle(timeTag, cs) == <<Hash, timeTag>> \o Elements(cs)

\* A message of n bytes: '/' and NUL padding.
Message(n) == [i \in 1 .. n |-> IF i = 1 THEN Slash ELSE 0]

Msg == Message(1)
BadMsg == <<Slash, 1>>       \* a message the decoder rejects
Junk == <<1>>                \* leading byte neither '/' nor '#'
Empty == <<>>

----------------------------------------------------------------------------
(* Inputs *)

\* Byte arrays handed to OscPacketInitialiseFromCharArray.
Sources ==
    { Empty,
      Msg,
      BadMsg,
      Junk,
      <<Hash>>,                                      \* bundle cut before its time tag
      Bundle(1, <<>>),                               \* bundle with zero elements
      Bundle(1, <<Msg>>),
      Bundle(1, <<Msg, Message(2), Msg>>),           \* three messages
      Bundle(1, <<Bundle(2, <<Bundle(1, <<>>)>>)>>), \* three levels of bundles
      <<Hash, 1, 5, Slash>>,                         \* element size runs past the bundle
      Bundle(1, <<Bundle(2, <<>>)>>),                \* nested bundle with zero elements
      Bundle(1, <<Msg, Empty, Msg>>),                \* empty element between messages
      Bundle(1, <<Msg, Junk, Msg>>),                 \* second of three elements invalid
      Bundle(1, <<Msg, BadMsg, Msg>>),               \* second of three elements malformed
      Bundle(1, <<Bundle(2, <<Msg>>), Msg>>),        \* message after a nested bundle
      Bundle(1, <<Bundle(2, <<Junk>>), Msg>>),       \* failure inside a nested bundle
      Bundle(1, <<Bundle(2, <<BadMsg>>)>>),          \* malformed message, two bundles deep
      Message(MAX_OSC_PACKET_SIZE),
      Message(MAX_OSC_PACKET_SIZE + 1),
      [i \in 1 .. MAX_OSC_PACKET_SIZE + 2 |-> 1] }

\* OSC contents handed to OscPacketInitialiseFromContents, each written as the
\* bytes its encoder produces; the first byte is the first byte of the structure.
ContentsInputs ==
    { Msg,
      Message(MAX_OSC_PACKET_SIZE),
      Message(MAX_OSC_PACKET_SIZE + 1),
      Bundle(2, <<Msg>>),
      Bundle(2, <<Message(MAX_OSC_PACKET_SIZE - 2)>>),   \* MAX_OSC_PACKET_SIZE + 1 bytes
      Junk,
      <<0, Slash>> }

\* Values an unwritten size field may hold.
IndeterminateSizes == {0, MAX_OSC_PACKET_SIZE + 1}

\* Values an unwritten buffer may hold (every byte the same).
IndeterminateBytes == {0, Slash}

----------------------------------------------------------------------------
(* Collaborators: OscMessage.c and OscBundle.c encoders *)

\* The buffer after the first n bytes of bytes are stored at its start.
Store(buf, bytes, n) ==
    [i \in BufferIndex |-> IF i < n THEN bytes[i + 1] ELSE buf[i]]

Min(a, b) == IF a < b THEN a ELSE b

\* OscMessageToCharArray(message, &size, destination, destinationSize):
\* the size is zero unless the whole message fitted.
OscMessageToCharArray(buf, message, destinationSize) ==
    IF Len(message) > destinationSize
    THEN [error |-> OscErrorPacketSizeTooLarge, size |-> 0,
          contents |-> Store(buf, message, Min(destinationSize, MAX_OSC_PACKET_SIZE))]
    ELSE [error |-> OscErrorNone, size |-> Len(message),
          contents |-> Store(buf, message, Len(message))]

\* OscBundleToCharArray(bundle, &size, destination, destinationSize)
OscBundleToCharArray(buf, bundle, destinationSize) ==
    IF Len(bundle) > destinationSize
    THEN [error |-> OscErrorPacketSizeTooLarge, size |-> 0,
          contents |-> Store(buf, bundle, Min(destinationSize, MAX_OSC_PACKET_SIZE))]
    ELSE [error |-> OscErrorNone, size |-> Len(bundle),
          contents |-> Store(buf, bundle, Len(bundle))]

----------------------------------------------------------------------------
(* OscPacket.c : initialisers *)

Idle == mode = "idle" /\ nCalls < MaxCalls

\* The packet and the outcome of the previous call, as a call finds them.
Entered ==
    [size |-> size, processMessage |-> processMessage, op |-> op, error |-> error]

\* Bookkeeping of an API call that returns at once.
Returned(name, bytes, oscError) ==
    /\ op' = name
    /\ arg' = bytes
    /\ pre' = Entered
    /\ error' = oscError
    /\ calls' = <<>>
    /\ touched' = FALSE
    /\ log' = <<>>
    /\ nCalls' = nCalls + 1
    /\ UNCHANGED <<stack, ret, mode>>

OscPacketInitialise ==
    /\ Idle
    /\ size' = 0
    /\ processMessage' = NULL
    /\ initialised' = TRUE
    /\ UNCHANGED contents
    /\ Returned("OscPacketInitialise", <<>>, OscErrorNone)

\* Mutant: the encoders are given one byte more than the buffer holds.
FromContentsWrongCapacity(buf, sz, oscContents) ==
    IF OscContentsIsMessage(oscContents[1])
    THEN OscMessageToCharArray(buf, oscContents, MAX_OSC_PACKET_SIZE + 1)
    ELSE IF OscContentsIsBundle(oscContents[1])
    THEN OscBundleToCharArray(buf, oscContents, MAX_OSC_PACKET_SIZE + 1)
    ELSE [error |-> OscErrorInvalidContents, size |-> sz, contents |-> buf]

\* Mutant: invalid contents leave the packet empty.
FromContentsInvalidEmptiesPacket(buf, sz, oscContents) ==
    IF OscContentsIsMessage(oscContents[1])
    THEN OscMessageToCharArray(buf, oscContents, MAX_OSC_PACKET_SIZE)
    ELSE IF OscContentsIsBundle(oscContents[1])
    THEN OscBundleToCharArray(buf, oscContents, MAX_OSC_PACKET_SIZE)
    ELSE [error |-> OscErrorInvalidContents, size |-> 0, contents |-> buf]

\* The result of OscPacketInitialiseFromContents on a packet with the given
\* buffer and size: the OscError and the buffer and size left behind.
FromContentsResult(buf, sz, oscContents) ==
    IF OscContentsIsMessage(oscContents[1])
    THEN OscMessageToCharArray(buf, oscContents, MAX_OSC_PACKET_SIZE)
    ELSE IF OscContentsIsBundle(oscContents[1])
    THEN OscBundleToCharArray(buf, oscContents, MAX_OSC_PACKET_SIZE)
    ELSE [error |-> OscErrorInvalidContents, size |-> sz, contents |-> buf]

\* Mutant: the handler is cleared only when the contents were written.
InitialiseFromContentsKeepsHandlerOnFailure ==
    /\ Idle
    /\ \E oscContents \in ContentsInputs :
         LET r == FromContentsResult(contents, size, oscContents) IN
         /\ processMessage' = IF r.error = OscErrorNone THEN NULL ELSE processMessage
         /\ size' = r.size
         /\ contents' = r.contents
         /\ initialised' = (initialised \/ r.error # OscErrorInvalidContents)
         /\ Returned("OscPacketInitialiseFromContents", oscContents, r.error)

OscPacketInitialiseFromContents ==
    /\ Idle
    /\ \E oscContents \in ContentsInputs :
         LET r == FromContentsResult(contents, size, oscContents) IN
         /\ processMessage' = NULL
         /\ size' = r.size
         /\ contents' = r.contents
         /\ initialised' = (initialised \/ r.error # OscErrorInvalidContents)
         /\ Returned("OscPacketInitialiseFromContents", oscContents, r.error)

\* Mutant: the capacity check off by one.
SourceTooLargeOffByOne(sourceSize) == sourceSize >= MAX_OSC_PACKET_SIZE

\* sourceSize > MAX_OSC_PACKET_SIZE
SourceTooLarge(sourceSize) == sourceSize > MAX_OSC_PACKET_SIZE

\* Mutant: the handler is not cleared on success.
FromCharArrayKeepsHandler(buf, handler, source) ==
    IF SourceTooLarge(Len(source))
    THEN [error |-> OscErrorPacketSizeTooLarge, size |-> 0, contents |-> buf,
          processMessage |-> handler]
    ELSE [error |-> OscErrorNone, size |-> Len(source),
          contents |-> Store(buf, source, Len(source)),
          processMessage |-> handler]

\* The result of OscPacketInitialiseFromCharArray.
FromCharArrayResult(buf, handler, source) ==
    IF SourceTooLarge(Len(source))
    THEN [error |-> OscErrorPacketSizeTooLarge, size |-> 0, contents |-> buf,
          processMessage |-> handler]
    ELSE [error |-> OscErrorNone, size |-> Len(source),
          contents |-> Store(buf, source, Len(source)),
          processMessage |-> NULL]

\* Mutant: the handler is cleared before the size of the source is checked.
InitialiseFromCharArrayClearsHandlerFirst ==
    /\ Idle
    /\ \E source \in Sources :
         LET r == FromCharArrayResult(contents, processMessage, source) IN
         /\ size' = r.size
         /\ contents' = r.contents
         /\ processMessage' = NULL
         /\ initialised' = TRUE
         /\ Returned("OscPacketInitialiseFromCharArray", source, r.error)

OscPacketInitialiseFromCharArray ==
    /\ Idle
    /\ \E source \in Sources :
         LET r == FromCharArrayResult(contents, processMessage, source) IN
         /\ size' = r.size
         /\ contents' = r.contents
         /\ processMessage' = r.processMessage
         /\ initialised' = TRUE
         /\ Returned("OscPacketInitialiseFromCharArray", source, r.error)

\* oscPacket.processMessage = ProcessMessage; in the application
AttachHandler ==
    /\ mode = "idle"
    /\ processMessage # ProcessMessage
    /\ processMessage' = ProcessMessage
    /\ op' = "AttachHandler"
    /\ arg' = <<>>
    /\ pre' = Entered
    /\ error' = OscErrorNone
    /\ calls' = <<>>
    /\ touched' = FALSE
    /\ log' = <<>>
    /\ UNCHANGED <<contents, size, initialised, stack, ret, mode, nCalls>>

----------------------------------------------------------------------------
(* Collaborators: OscMessage.c and OscBundle.c decoders *)

NoBundle == [oscTimeTag |-> 0, elements |-> 0,
             oscBundleElementsSize |-> 0, oscBundleElementsIndex |-> 0]

\* OscMessageInitialiseFromCharArray(&oscMessage, source, sourceSize):
\* every byte after the leading '/' must be NUL padding.
OscMessageInitialiseFromCharArray(buf, source, sourceSize) ==
    IF \A i \in 1 .. (sourceSize - 1) : buf[source + i] = 0
    THEN OscErrorNone
    ELSE OscErrorMessageMalformed

\* OscBundleInitialiseFromCharArray(&oscBundle, source, sourceSize):
\* reads the time tag and sets the cursor at the first element.
OscBundleInitialiseFromCharArray(buf, source, sourceSize) ==
    IF sourceSize < 2
    THEN [error |-> OscErrorBundleSizeTooSmall, oscBundle |-> NoBundle]
    ELSE [error |-> OscErrorNone,
          oscBundle |-> [oscTimeTag |-> buf[source + 1],
                         elements |-> source + 2,
                         oscBundleElementsSize |-> sourceSize - 2,
                         oscBundleElementsIndex |-> 0]]

\* OscBundleIsBundleElementAvailable(&oscBundle)
OscBundleIsBundleElementAvailable(oscBundle) ==
    oscBundle.oscBundleElementsIndex < oscBundle.oscBundleElementsSize

\* OscBundleGetBundleElement(&oscBundle, &oscBundleElement):
\* reads the element's size, checks that the element lies inside the bundle
\* and moves the cursor past it.
OscBundleGetBundleElement(buf, oscBundle) ==
    LET at == oscBundle.elements + oscBundle.oscBundleElementsIndex
        elementSize == buf[at]
    IN  IF oscBundle.oscBundleElementsIndex + 1 + elementSize
             > oscBundle.oscBundleElementsSize
        THEN [error |-> OscErrorInvalidElementSize,
              element |-> [contents |-> 0, size |-> 0],
              oscBundle |-> oscBundle]
        ELSE [error |-> OscErrorNone,
              element |-> [contents |-> at + 1, size |-> elementSize],
              oscBundle |-> [oscBundle EXCEPT
                               !.oscBundleElementsIndex = @ + 1 + elementSize]]

----------------------------------------------------------------------------
(* OscPacket.c : OscPacketProcessMessages and DeconstructContents *)

\* An activation of DeconstructContents(oscPacket, oscTimeTag, oscContents,
\* contentsSize); oscContents is an offset into the packet buffer.
Frame(oscTimeTag, oscContents, contentsSize) ==
    [oscTimeTag |-> oscTimeTag, oscContents |-> oscContents,
     contentsSize |-> contentsSize, pc |-> "entry", oscBundle |-> NoBundle]

Top == stack[Len(stack)]

Deconstructing(at) == mode = "processing" /\ stack # <<>> /\ Top.pc = at

\* return v; from the innermost activation
Return(v) ==
    /\ stack' = SubSeq(stack, 1, Len(stack) - 1)
    /\ ret' = v

ReplaceTop(frame) == [stack EXCEPT ![Len(stack)] = frame]

\* Function fn of OscCommon.c, OscMessage.c or OscBundle.c applied by the
\* activation frame.
Applied(fn, frame) ==
    [fn |-> fn, at |-> frame.oscContents, size |-> frame.contentsSize]

Packet == <<contents, size, processMessage, initialised>>
Call == <<op, arg, pre, nCalls>>

\* Mutant: the handler check is missing.
CallbackNeverUndefined(handler) == FALSE

\* oscPacket->processMessage == NULL
CallbackUndefined(handler) == handler = NULL

\* "An OSC packet structure must be initialised before use": the call is made
\* only on a packet whose size an initialiser has written.
OscPacketProcessMessages ==
    /\ Idle
    /\ initialised
    /\ UNCHANGED Packet
    /\ IF CallbackUndefined(processMessage)
       THEN Returned("OscPacketProcessMessages", <<>>,
                     OscErrorCallbackFunctionUndefined)
       ELSE /\ mode' = "processing"
            /\ stack' = <<Frame(NoTimeTag, 0, size)>>
            /\ ret' = Running
            /\ op' = "OscPacketProcessMessages"
            /\ arg' = <<>>
            /\ pre' = Entered
            /\ error' = Running
            /\ calls' = <<>>
            /\ touched' = FALSE
            /\ log' = <<>>
            /\ nCalls' = nCalls + 1

\* Mutant: contents of size zero are passed over as a success.
EmptyContentsSkipped == OscErrorNone

\* The error returned for contents of size zero.
EmptyContentsError == OscErrorContentsEmpty

\* Mutant: the contents are classified before their size is tested.
DeconstructEmptyAfterClassifying ==
    /\ Deconstructing("entry")
    /\ Top.contentsSize = 0
    /\ Return(EmptyContentsError)
    /\ log' = log \o <<Applied("OscContentsIsMessage", Top),
                        Applied("OscContentsIsBundle", Top)>>
    /\ UNCHANGED <<Packet, Call, mode, error, calls, touched>>

\* if (contentsSize == 0) return OscErrorContentsEmpty;
DeconstructEmpty ==
    /\ Deconstructing("entry")
    /\ Top.contentsSize = 0
    /\ Return(EmptyContentsError)
    /\ UNCHANGED <<Packet, Call, mode, error, calls, touched, log>>

\* Mutant: the handler is not invoked.
DispatchNothing(invocations, frame) == invocations

\* oscPacket->processMessage(oscTimeTag, &oscMessage)
Dispatch(invocations, frame) ==
    Append(invocations, [oscTimeTag |-> frame.oscTimeTag,
                         oscContents |-> frame.oscContents,
                         contentsSize |-> frame.contentsSize])

\* Mutant: a failure of the message decoder is reported as invalid contents.
DeconstructMessageWrapsError ==
    /\ Deconstructing("entry")
    /\ Top.contentsSize # 0
    /\ OscContentsIsMessage(contents[Top.oscContents])
    /\ LET oscError == OscMessageInitialiseFromCharArray(
                           contents, Top.oscContents, Top.contentsSize)
       IN  IF oscError # OscErrorNone
           THEN Return(OscErrorInvalidContents) /\ UNCHANGED calls
           ELSE Return(OscErrorNone) /\ calls' = Dispatch(calls, Top)
    /\ touched' = TRUE
    /\ log' = log \o <<Applied("OscContentsIsMessage", Top),
                        Applied("OscMessageInitialiseFromCharArray", Top)>>
    /\ UNCHANGED <<Packet, Call, mode, error>>

\* if (OSC_CONTENTS_IS_MESSAGE(oscContents)) { ... }
DeconstructMessage ==
    /\ Deconstructing("entry")
    /\ Top.contentsSize # 0
    /\ OscContentsIsMessage(contents[Top.oscContents])
    /\ LET oscError == OscMessageInitialiseFromCharArray(
                           contents, Top.oscContents, Top.contentsSize)
       IN  IF oscError # OscErrorNone
           THEN Return(oscError) /\ UNCHANGED calls
           ELSE Return(OscErrorNone) /\ calls' = Dispatch(calls, Top)
    /\ touched' = TRUE
    /\ log' = log \o <<Applied("OscContentsIsMessage", Top),
                        Applied("OscMessageInitialiseFromCharArray", Top)>>
    /\ UNCHANGED <<Packet, Call, mode, error>>

\* if (OSC_CONTENTS_IS_BUNDLE(oscContents)) { OscBundleInitialiseFromCharArray ... }
DeconstructBundle ==
    /\ Deconstructing("entry")
    /\ Top.contentsSize # 0
    /\ ~OscContentsIsMessage(contents[Top.oscContents])
    /\ OscContentsIsBundle(contents[Top.oscContents])
    /\ LET r == OscBundleInitialiseFromCharArray(
                    contents, Top.oscContents, Top.contentsSize)
       IN  IF r.error # OscErrorNone
           THEN Return(r.error)
           ELSE /\ stack' = ReplaceTop([Top EXCEPT !.pc = "loop",
                                                   !.oscBundle = r.oscBundle])
                /\ UNCHANGED ret
    /\ touched' = TRUE
    /\ log' = log \o <<Applied("OscContentsIsMessage", Top),
                        Applied("OscContentsIsBundle", Top),
                        Applied("OscBundleInitialiseFromCharArray", Top)>>
    /\ UNCHANGED <<Packet, Call, mode, error, calls>>

\* Mutant: contents that are neither message nor bundle are decoded as a
\* message.
DeconstructInvalidAsMessage ==
    /\ Deconstructing("entry")
    /\ Top.contentsSize # 0
    /\ ~OscContentsIsMessage(contents[Top.oscContents])
    /\ ~OscContentsIsBundle(contents[Top.oscContents])
    /\ LET oscError == OscMessageInitialiseFromCharArray(
                           contents, Top.oscContents, Top.contentsSize)
       IN  IF oscError # OscErrorNone
           THEN Return(oscError) /\ UNCHANGED calls
           ELSE Return(OscErrorNone) /\ calls' = Dispatch(calls, Top)
    /\ touched' = TRUE
    /\ log' = log \o <<Applied("OscContentsIsMessage", Top),
                        Applied("OscContentsIsBundle", Top),
                        Applied("OscMessageInitialiseFromCharArray", Top)>>
    /\ UNCHANGED <<Packet, Call, mode, error>>

\* return OscErrorInvalidContents;
DeconstructInvalid ==
    /\ Deconstructing("entry")
    /\ Top.contentsSize # 0
    /\ ~OscContentsIsMessage(contents[Top.oscContents])
    /\ ~OscContentsIsBundle(contents[Top.oscContents])
    /\ Return(OscErrorInvalidContents)
    /\ touched' = TRUE
    /\ log' = log \o <<Applied("OscContentsIsMessage", Top),
                        Applied("OscContentsIsBundle", Top)>>
    /\ UNCHANGED <<Packet, Call, mode, error, calls>>

\* Mutant: the time tag of the caller is handed on.
ElementTimeTagOuter(frame) == frame.oscTimeTag

\* The time tag handed to the recursive call: &oscBundle.oscTimeTag
ElementTimeTag(frame) == <<frame.oscBundle.oscTimeTag>>

\* Mutant: availability is tested at the bottom of the do-while loop, so
\* the first turn always fetches an element.
NoMoreElementsAfterFirst(oscBundle) ==
    /\ oscBundle.oscBundleElementsIndex > 0
    /\ ~OscBundleIsBundleElementAvailable(oscBundle)

\* if (!OscBundleIsBundleElementAvailable(&oscBundle)) break;
NoMoreElements(oscBundle) == ~OscBundleIsBundleElementAvailable(oscBundle)

\* Mutant: the recursive call is given the bundle instead of its element.
ElementFrameOfBundle(caller, element) ==
    Frame(ElementTimeTag(caller), caller.oscContents, caller.contentsSize)

\* DeconstructContents(oscPacket, &oscBundle.oscTimeTag,
\*                     oscBundleElement.contents, oscBundleElement.size.int32)
ElementFrame(caller, element) ==
    Frame(ElementTimeTag(caller), element.contents, element.size)

\* One turn of the do-while loop up to the recursive call.
DeconstructBundleElement ==
    /\ Deconstructing("loop")
    /\ IF NoMoreElements(Top.oscBundle)
       THEN Return(OscErrorNone)
       ELSE LET r == OscBundleGetBundleElement(contents, Top.oscBundle) IN
            IF r.error # OscErrorNone
            THEN Return(r.error)
            ELSE LET caller == [Top EXCEPT !.pc = "called",
                                           !.oscBundle = r.oscBundle]
                 IN  /\ stack' = Append(ReplaceTop(caller),
                                        ElementFrame(caller, r.element))
                     /\ ret' = Running
    /\ touched' = TRUE
    /\ log' = log \o <<Applied("OscBundleIsBundleElementAvailable", Top)>>
                  \o (IF NoMoreElements(Top.oscBundle) THEN <<>>
                      ELSE <<Applied("OscBundleGetBundleElement", Top)>>)
    /\ UNCHANGED <<Packet, Call, mode, error, calls>>

\* Mutant: the error of the recursive call is dropped.
ElementFailedNever(oscError) == FALSE

\* if (oscError != OscErrorNone) after the recursive call
ElementFailed(oscError) == oscError # OscErrorNone

\* The recursive call has returned into the loop.
DeconstructElementReturned ==
    /\ Deconstructing("called")
    /\ ret # Running
    /\ IF ElementFailed(ret)
       THEN Return(ret)
       ELSE /\ stack' = ReplaceTop([Top EXCEPT !.pc = "loop"])
            /\ ret' = Running
    /\ UNCHANGED <<Packet, Call, mode, error, calls, touched, log>>

\* Mutant: the packet is emptied once it has been processed.
ProcessMessagesReturnEmpties ==
    /\ mode = "processing"
    /\ stack = <<>>
    /\ mode' = "idle"
    /\ error' = ret
    /\ size' = 0
    /\ UNCHANGED <<contents, processMessage, initialised, Call, stack, ret,
                   calls, touched, log>>

\* return DeconstructContents(oscPacket, NULL, oscPacket->contents, oscPacket->size);
ProcessMessagesReturn ==
    /\ mode = "processing"
    /\ stack = <<>>
    /\ mode' = "idle"
    /\ error' = ret
    /\ UNCHANGED <<Packet, Call, stack, ret, calls, touched, log>>

----------------------------------------------------------------------------
(* The packet as declared, before any initialiser has run: its fields hold *)
(* indeterminate values.                                                   *)

Init ==
    /\ \E b \in IndeterminateBytes : contents = [i \in BufferIndex |-> b]
    /\ size \in IndeterminateSizes
    /\ processMessage \in {NULL, Indeterminate}
    /\ initialised = FALSE
    /\ stack = <<>>
    /\ ret = Running
    /\ mode = "idle"
    /\ op = "none"
    /\ arg = <<>>
    /\ pre = [size |-> size, processMessage |-> processMessage,
              op |-> "none", error |-> OscErrorNone]
    /\ error = OscErrorNone
    /\ calls = <<>>
    /\ touched = FALSE
    /\ log = <<>>
    /\ nCalls = 0

Next ==
    \/ OscPacketInitialise
    \/ OscPacketInitialiseFromContents
    \/ OscPacketInitialiseFromCharArray
    \/ AttachHandler
    \/ OscPacketProcessMessages
    \/ DeconstructEmpty
    \/ DeconstructMessage
    \/ DeconstructBundle
    \/ DeconstructInvalid
    \/ DeconstructBundleElement
    \/ DeconstructElementReturned
    \/ ProcessMessagesReturn

Spec == Init /\ [][Next]_vars

\* The steps inside OscPacketProcessMessages.
DeconstructStep ==
    \/ DeconstructEmpty
    \/ DeconstructMessage
    \/ DeconstructBundle
    \/ DeconstructInvalid
    \/ DeconstructBundleElement
    \/ DeconstructElementReturned
    \/ ProcessMessagesReturn

\* OscPacketProcessMessages is a synchronous call on one thread: once entered
\* it keeps running until it returns.
SpecFair == Spec /\ WF_vars(DeconstructStep)

----------------------------------------------------------------------------
(* The structure of a buffer: every element of a contents span in          *)
(* depth-first, left-to-right order, without stopping at a failure.        *)

RECURSIVE Walk(_, _, _), WalkElements(_, _)

\* The elements of the span of contentsSize bytes at offset oscContents.
Walk(buf, oscContents, contentsSize) ==
    IF contentsSize = 0
    THEN <<[kind |-> "failure", error |-> OscErrorContentsEmpty,
            at |-> oscContents, size |-> 0]>>
    ELSE IF buf[oscContents] = Slash
    THEN IF OscMessageInitialiseFromCharArray(buf, oscContents, contentsSize)
              = OscErrorNone
         THEN <<[kind |-> "message", error |-> OscErrorNone,
                 at |-> oscContents, size |-> contentsSize]>>
         ELSE <<[kind |-> "failure", error |-> OscErrorMessageMalformed,
                 at |-> oscContents, size |-> contentsSize]>>
    ELSE IF buf[oscContents] = Hash
    THEN LET r == OscBundleInitialiseFromCharArray(buf, oscContents, contentsSize)
         IN  IF r.error # OscErrorNone
             THEN <<[kind |-> "failure", error |-> r.error,
                     at |-> oscContents, size |-> contentsSize]>>
             ELSE <<[kind |-> "bundle", error |-> OscErrorNone,
                     at |-> oscContents, size |-> contentsSize]>>
                  \o WalkElements(buf, r.oscBundle)
    ELSE <<[kind |-> "failure", error |-> OscErrorInvalidContents,
            at |-> oscContents, size |-> contentsSize]>>

\* The elements of a bundle from its cursor on.
WalkElements(buf, oscBundle) ==
    IF ~OscBundleIsBundleElementAvailable(oscBundle)
    THEN <<>>
    ELSE LET r == OscBundleGetBundleElement(buf, oscBundle) IN
         IF r.error # OscErrorNone
         THEN <<[kind |-> "failure", error |-> r.error,
                 at |-> oscBundle.elements + oscBundle.oscBundleElementsIndex,
                 size |-> 0]>>
         ELSE Walk(buf, r.element.contents, r.element.size)
              \o WalkElements(buf, r.oscBundle)

\* The structure of the packet's contents.
PacketWalk == Walk(contents, 0, size)

\* Index of the first failure in a walk, one past its end if there is none.
FirstFailure(w) ==
    IF \E i \in 1 .. Len(w) : w[i].kind = "failure"
    THEN CHOOSE i \in 1 .. Len(w) :
            /\ w[i].kind = "failure"
            /\ \A j \in 1 .. (i - 1) : w[j].kind # "failure"
    ELSE Len(w) + 1

RECURSIVE Select(_, _)
\* The entries of sequence w of the given kind, in order.
Select(w, kind) ==
    IF w = <<>> THEN <<>>
    ELSE IF Head(w).kind = kind
    THEN <<Head(w)>> \o Select(Tail(w), kind)
    ELSE Select(Tail(w), kind)

\* Where the handler was invoked, in order.
CallSpans ==
    [i \in 1 .. Len(calls) |-> <<calls[i].oscContents, calls[i].contentsSize>>]

\* The spans of the given walk entries, in order.
Spans(w) == [i \in 1 .. Len(w) |-> <<w[i].at, w[i].size>>]

\* The time tag of the innermost bundle of the buffer that holds offset at,
\* none if no bundle does.
NearestTimeTag(buf, w, at) ==
    LET around == { i \in 1 .. Len(w) :
                      /\ w[i].kind = "bundle"
                      /\ w[i].at < at
                      /\ at < w[i].at + w[i].size }
    IN  IF around = {} THEN NoTimeTag
        ELSE LET inner == CHOOSE i \in around :
                             \A j \in around : w[i].size <= w[j].size
             IN  <<buf[w[inner].at + 1]>>

\* OscPacketProcessMessages has returned, having been called with a handler.
Processed ==
    /\ op = "OscPacketProcessMessages"
    /\ mode = "idle"
    /\ pre.processMessage # NULL

----------------------------------------------------------------------------
(* Claims *)

\* C1: a failing OscPacketProcessMessages returns the first error in
\* depth-first, left-to-right order; the handler has been invoked exactly for
\* the messages before the failing point; once an activation has returned an
\* error the error stays and no handler invocation follows.
C1_FailFast ==
    /\ [](Processed /\ error # OscErrorNone =>
            LET w == PacketWalk
                k == FirstFailure(w)
            IN  /\ k <= Len(w)
                /\ error = w[k].error
                /\ CallSpans = Spans(Select(SubSeq(w, 1, k - 1), "message")))
    /\ [][(mode = "processing" /\ ret \notin {Running, OscErrorNone})
            => (ret' = ret /\ calls' = calls)]_vars

\* C1 witness: second of three elements malformed; one invocation, for the
\* first element, and the decoder's error returned.
C1_Witness ==
    /\ Processed
    /\ error = OscErrorMessageMalformed
    /\ Len(calls) = 1
    /\ Len(Select(PacketWalk, "message")) = 2

\* C2: a successful OscPacketProcessMessages has invoked the handler exactly
\* once for every message of the packet, at any depth, in depth-first,
\* left-to-right order, and only for spans that decode as a message.
C2_EveryMessageOnce ==
    (Processed /\ error = OscErrorNone) =>
        /\ CallSpans = Spans(Select(PacketWalk, "message"))
        /\ \A i, j \in 1 .. Len(calls) :
              calls[i].oscContents = calls[j].oscContents => i = j
        /\ \A i \in 1 .. Len(calls) :
              /\ OscContentsIsMessage(contents[calls[i].oscContents])
              /\ OscMessageInitialiseFromCharArray(
                     contents, calls[i].oscContents, calls[i].contentsSize)
                   = OscErrorNone

\* C2 witness: success on a bundle holding a nested bundle and two messages.
C2_Witness ==
    /\ Processed
    /\ error = OscErrorNone
    /\ Len(calls) = 2
    /\ Len(Select(PacketWalk, "bundle")) = 2

\* C3: every handler invocation carries the time tag of the innermost bundle
\* around the dispatched message, none (NULL) for a message outside any bundle.
C3_NearestTimeTag ==
    op = "OscPacketProcessMessages" =>
        \A i \in 1 .. Len(calls) :
            calls[i].oscTimeTag
              = NearestTimeTag(contents, PacketWalk, calls[i].oscContents)

\* C3 witness: the message inside the nested bundle got the inner tag, the
\* message after the nested bundle got the outer tag.
C3_Witness ==
    /\ Processed
    /\ Len(calls) = 2
    /\ calls[1].oscTimeTag = <<2>>
    /\ calls[2].oscTimeTag = <<1>>
    /\ contents[1] = 1

\* C4: without a handler OscPacketProcessMessages returns
\* OscErrorCallbackFunctionUndefined at once, whatever the buffer holds: no
\* activation of DeconstructContents, no buffer read, no collaborator call.
C4_CallbackUndefined ==
    (op = "OscPacketProcessMessages" /\ pre.processMessage = NULL) =>
        /\ error = OscErrorCallbackFunctionUndefined
        /\ mode = "idle"
        /\ stack = <<>>
        /\ ~touched
        /\ calls = <<>>

\* C4 witness: no handler, and a buffer whose leading byte is neither '/' nor '#'.
C4_Witness ==
    /\ op = "OscPacketProcessMessages"
    /\ pre.processMessage = NULL
    /\ error = OscErrorCallbackFunctionUndefined
    /\ size > 0
    /\ ~OscContentsIsMessage(contents[0])
    /\ ~OscContentsIsBundle(contents[0])

\* C5: after any sequence of initialiser and OscPacketProcessMessages calls
\* the packet's size is at most MAX_OSC_PACKET_SIZE.
C5_LengthWithinCapacity ==
    (nCalls > 0 /\ mode = "idle") => (0 <= size /\ size <= MAX_OSC_PACKET_SIZE)

\* What holds instead: the size is within capacity once an initialiser has
\* written it.
LengthWithinCapacityOnceWritten ==
    initialised => (0 <= size /\ size <= MAX_OSC_PACKET_SIZE)

\* The handler invoked is always the application's, never an unwritten pointer,
\* and the bytes read lie inside the written part of the buffer.
InvokedHandlerDefined ==
    /\ calls # <<>> => processMessage = ProcessMessage
    /\ \A i \in 1 .. Len(stack) :
          stack[i].oscContents + stack[i].contentsSize <= size

\* C6: OscPacketInitialiseFromCharArray succeeds for every sourceSize up to
\* MAX_OSC_PACKET_SIZE and fails with OscErrorPacketSizeTooLarge, leaving
\* size 0, for every larger one.
C6_CapacityBoundary ==
    op = "OscPacketInitialiseFromCharArray" =>
        IF Len(arg) <= MAX_OSC_PACKET_SIZE
        THEN error = OscErrorNone
        ELSE error = OscErrorPacketSizeTooLarge /\ size = 0

\* C6 witness: a packet filled to capacity, then a source one byte too long.
C6_Witness ==
    /\ op = "OscPacketInitialiseFromCharArray"
    /\ Len(arg) = MAX_OSC_PACKET_SIZE + 1
    /\ pre.size = MAX_OSC_PACKET_SIZE
    /\ error = OscErrorPacketSizeTooLarge
    /\ size = 0

\* C7: a successful OscPacketInitialiseFromCharArray leaves size = sourceSize,
\* the source bytes at the start of the buffer and no handler; it succeeds
\* whatever the bytes mean, and bytes that are no contents fail only in
\* OscPacketProcessMessages.
C7_VerbatimCopy ==
    /\ (op = "OscPacketInitialiseFromCharArray" /\ error = OscErrorNone) =>
          /\ size = Len(arg)
          /\ \A i \in 1 .. Len(arg) : contents[i - 1] = arg[i]
          /\ processMessage = NULL
    /\ (op = "OscPacketInitialiseFromCharArray"
          /\ Len(arg) <= MAX_OSC_PACKET_SIZE
          /\ (arg = <<>> \/ arg[1] \notin {Slash, Hash})) =>
          error = OscErrorNone
    /\ (Processed /\ size = 0) => error = OscErrorContentsEmpty
    /\ (Processed /\ size > 0 /\ contents[0] \notin {Slash, Hash}) =>
          error = OscErrorInvalidContents

\* C7 witness: bytes that are no contents copied into a packet that had a
\* handler attached.
C7_Witness ==
    /\ op = "OscPacketInitialiseFromCharArray"
    /\ error = OscErrorNone
    /\ arg = Junk
    /\ pre.processMessage = ProcessMessage
    /\ processMessage = NULL
    /\ size = 1
    /\ contents[0] = 1

\* C8: OscPacketInitialiseFromContents of a message or bundle whose encoding
\* exceeds MAX_OSC_PACKET_SIZE fails with OscErrorPacketSizeTooLarge and
\* leaves size 0.
C8_EncodingTooLarge ==
    (op = "OscPacketInitialiseFromContents"
       /\ arg[1] \in {Slash, Hash}
       /\ Len(arg) > MAX_OSC_PACKET_SIZE) =>
        (error = OscErrorPacketSizeTooLarge /\ size = 0)

\* C8 witness: a bundle one byte too long encoded into a packet that held
\* contents.
C8_Witness ==
    /\ op = "OscPacketInitialiseFromContents"
    /\ arg[1] = Hash
    /\ Len(arg) = MAX_OSC_PACKET_SIZE + 1
    /\ pre.size > 0
    /\ pre.size <= MAX_OSC_PACKET_SIZE
    /\ error = OscErrorPacketSizeTooLarge
    /\ size = 0

\* C9: DeconstructContents returns OscErrorContentsEmpty for every span of
\* size 0, the packet's own contents or a bundle element; the empty element is
\* not passed over and the handler is not invoked for it.
C9_EmptyContents ==
    /\ [](Processed =>
            LET w == PacketWalk
                k == FirstFailure(w)
            IN  /\ (k <= Len(w) /\ w[k].error = OscErrorContentsEmpty)
                      => error = OscErrorContentsEmpty
                /\ \A i \in 1 .. Len(calls) : calls[i].contentsSize # 0)
    /\ [][(Deconstructing("entry") /\ Top.contentsSize = 0) =>
            /\ ret' = OscErrorContentsEmpty
            /\ stack' = SubSeq(stack, 1, Len(stack) - 1)
            /\ calls' = calls]_vars

\* C9 witness: an empty element after a message; the call failed with
\* OscErrorContentsEmpty after one invocation.
C9_Witness ==
    /\ Processed
    /\ error = OscErrorContentsEmpty
    /\ size > 0
    /\ Len(calls) = 1

\* C10: a bundle with zero elements, the packet's contents or nested, is
\* deconstructed with success and without a handler invocation.
C10_ZeroElementBundle ==
    /\ [](Processed =>
            LET w == PacketWalk
            IN  (w # <<>> /\ \A i \in 1 .. Len(w) : w[i].kind = "bundle")
                   => (error = OscErrorNone /\ calls = <<>>))
    /\ [][(Deconstructing("loop") /\ Top.oscBundle.oscBundleElementsSize = 0) =>
            /\ ret' = OscErrorNone
            /\ stack' = SubSeq(stack, 1, Len(stack) - 1)
            /\ calls' = calls]_vars

\* C10 witness: a bundle whose only element is a bundle with zero elements.
C10_Witness ==
    /\ Processed
    /\ error = OscErrorNone
    /\ calls = <<>>
    /\ Len(Select(PacketWalk, "bundle")) = 2

\* C11: OscPacketProcessMessages leaves the buffer bytes, the size and the
\* handler as they were, at every step and for every outcome.
C11_PacketUnchanged ==
    /\ [](op = "OscPacketProcessMessages" =>
            (size = pre.size /\ processMessage = pre.processMessage))
    /\ [][(\/ mode = "processing"
           \/ mode' = "processing"
           \/ (op' = "OscPacketProcessMessages" /\ nCalls' # nCalls)) =>
            (/\ contents' = contents
             /\ size' = size
             /\ processMessage' = processMessage)]_vars

\* C11 witness: a call that dispatched one message and then failed, the
\* packet as it was.
C11_Witness ==
    /\ Processed
    /\ error = OscErrorInvalidContents
    /\ Len(calls) = 1
    /\ size = pre.size
    /\ size > 0
    /\ processMessage = ProcessMessage

\* The number of bundles nested in one another in a walk.
BundleDepth(w) ==
    LET bundles == {i \in 1 .. Len(w) : w[i].kind = "bundle"}
        Around(i) == {j \in bundles :
                        /\ w[j].at <= w[i].at
                        /\ w[i].at + w[i].size <= w[j].at + w[j].size}
    IN  IF bundles = {} THEN 0
        ELSE LET deepest == CHOOSE i \in bundles :
                              \A j \in bundles :
                                 Cardinality(Around(j)) <= Cardinality(Around(i))
             IN  Cardinality(Around(deepest))

\* C12: OscPacketProcessMessages returns after finitely many steps, and the
\* depth of the recursion (activations below the first) never exceeds the
\* depth to which bundles are nested in the buffer.
C12_Terminates ==
    /\ [](mode = "processing" => Len(stack) - 1 <= BundleDepth(PacketWalk))
    /\ (mode = "processing") ~> (mode = "idle")

\* C12 witness: the activation for a message inside a bundle inside a bundle.
C12_Witness ==
    /\ mode = "processing"
    /\ Len(stack) = 3
    /\ BundleDepth(PacketWalk) = 2
    /\ Top.pc = "entry"
    /\ contents[Top.oscContents] = Slash

\* The errors the codecs return.
CollaboratorErrors ==
    {OscErrorMessageMalformed, OscErrorBundleSizeTooSmall, OscErrorInvalidElementSize}

\* C13: an error returned by the message decoder, the bundle decoder or the
\* element fetch is the value OscPacketProcessMessages returns, at any depth,
\* and a message that failed to decode is not handed to the handler.
C13_ErrorsVerbatim ==
    /\ [](Processed =>
            LET w == PacketWalk
                k == FirstFailure(w)
            IN  /\ (k <= Len(w) /\ w[k].error \in CollaboratorErrors)
                      => error = w[k].error
                /\ \A i \in 1 .. Len(calls) :
                      OscMessageInitialiseFromCharArray(
                          contents, calls[i].oscContents, calls[i].contentsSize)
                        = OscErrorNone)
    /\ [][/\ (Deconstructing("entry") /\ Top.contentsSize # 0
                /\ contents[Top.oscContents] = Slash
                /\ OscMessageInitialiseFromCharArray(
                       contents, Top.oscContents, Top.contentsSize) # OscErrorNone)
             => (/\ ret' = OscMessageInitialiseFromCharArray(
                               contents, Top.oscContents, Top.contentsSize)
                 /\ calls' = calls)
          /\ (Deconstructing("entry") /\ Top.contentsSize # 0
                /\ contents[Top.oscContents] = Hash
                /\ OscBundleInitialiseFromCharArray(
                       contents, Top.oscContents, Top.contentsSize).error
                     # OscErrorNone)
             => ret' = OscBundleInitialiseFromCharArray(
                           contents, Top.oscContents, Top.contentsSize).error
          /\ (Deconstructing("loop")
                /\ OscBundleIsBundleElementAvailable(Top.oscBundle)
                /\ OscBundleGetBundleElement(contents, Top.oscBundle).error
                     # OscErrorNone)
             => ret' = OscBundleGetBundleElement(contents, Top.oscBundle).error
          /\ (Deconstructing("called") /\ ret \in CollaboratorErrors)
             => ret' = ret
          /\ (mode = "processing" /\ stack = <<>>) => error' = ret]_vars

\* C13 witness: a malformed message two bundles deep; the decoder's error is
\* returned and nothing was dispatched.
C13_Witness ==
    /\ Processed
    /\ error = OscErrorMessageMalformed
    /\ calls = <<>>
    /\ Len(Select(PacketWalk, "bundle")) = 2

\* The functions of OscCommon.c.
Classifiers == {"OscContentsIsMessage", "OscContentsIsBundle"}

\* C14: DeconstructContents returns OscErrorInvalidContents for every
\* non-empty span whose first byte is neither '/' nor '#', the packet's own
\* contents or a bundle element, without a handler invocation and without a
\* call of a codec function.
C14_InvalidContents ==
    /\ []((Processed /\ size > 0 /\ contents[0] \notin {Slash, Hash}) =>
            /\ error = OscErrorInvalidContents
            /\ calls = <<>>
            /\ \A i \in 1 .. Len(log) : log[i].fn \in Classifiers)
    /\ [](Processed =>
            LET w == PacketWalk
                k == FirstFailure(w)
            IN  (k <= Len(w) /\ w[k].size > 0
                   /\ contents[w[k].at] \notin {Slash, Hash})
                   => error = OscErrorInvalidContents)
    /\ [][(Deconstructing("entry") /\ Top.contentsSize # 0
             /\ contents[Top.oscContents] \notin {Slash, Hash}) =>
            /\ ret' = OscErrorInvalidContents
            /\ stack' = SubSeq(stack, 1, Len(stack) - 1)
            /\ calls' = calls
            /\ Len(log') >= Len(log)
            /\ SubSeq(log', 1, Len(log)) = log
            /\ \A i \in (Len(log) + 1) .. Len(log') : log'[i].fn \in Classifiers]_vars

\* C14 witness: invalid contents two bundles deep, nothing dispatched.
C14_Witness ==
    /\ Processed
    /\ error = OscErrorInvalidContents
    /\ calls = <<>>
    /\ Len(Select(PacketWalk, "bundle")) = 2

\* C15: OscPacketInitialiseFromContents leaves the handler NULL whatever it
\* returns, so an OscPacketProcessMessages called next, with no handler
\* assigned in between, returns OscErrorCallbackFunctionUndefined.
C15_FromContentsClearsHandler ==
    /\ [](op = "OscPacketInitialiseFromContents" => processMessage = NULL)
    /\ []((op = "OscPacketProcessMessages"
             /\ pre.op = "OscPacketInitialiseFromContents") =>
            /\ mode = "idle"
            /\ error = OscErrorCallbackFunctionUndefined
            /\ calls = <<>>)
    /\ [][(op' = "OscPacketInitialiseFromContents" /\ nCalls' # nCalls) =>
            processMessage' = NULL]_vars

\* C15 witness: the encoder failed, and the OscPacketProcessMessages that
\* followed found no handler.
C15_Witness ==
    /\ op = "OscPacketProcessMessages"
    /\ pre.op = "OscPacketInitialiseFromContents"
    /\ pre.error = OscErrorPacketSizeTooLarge
    /\ error = OscErrorCallbackFunctionUndefined

\* C16: OscContentsIsMessage holds of a first byte exactly when it is '/',
\* OscContentsIsBundle exactly when it is '#', never both; neither holds
\* exactly for the other bytes, and contents with such a first byte are what
\* OscPacketInitialiseFromContents and DeconstructContents answer with
\* OscErrorInvalidContents.
C16_Classifier ==
    /\ \A b \in 0 .. 255 :
         /\ OscContentsIsMessage(b) <=> (b = Slash)
         /\ OscContentsIsBundle(b) <=> (b = Hash)
         /\ ~(OscContentsIsMessage(b) /\ OscContentsIsBundle(b))
         /\ (~OscContentsIsMessage(b) /\ ~OscContentsIsBundle(b))
              <=> (b \notin {Slash, Hash})
    /\ op = "OscPacketInitialiseFromContents" =>
         ((error = OscErrorInvalidContents) <=> (arg[1] \notin {Slash, Hash}))
    /\ Processed =>
         ((error = OscErrorInvalidContents) <=>
            (/\ log # <<>>
             /\ log[Len(log)].fn = "OscContentsIsBundle"
             /\ contents[log[Len(log)].at] \notin {Slash, Hash}))

\* C16 witness: contents whose first byte is NUL and whose second is '/' are
\* invalid: only the first byte is classified.
C16_Witness ==
    /\ op = "OscPacketInitialiseFromContents"
    /\ arg = <<0, Slash>>
    /\ error = OscErrorInvalidContents

\* C17: while OscPacketProcessMessages runs, the functions of OscCommon.c are
\* applied only to contents of non-zero size: contents of size zero, the
\* packet's or a bundle element's, are answered before their first byte is
\* read.
C17_NoClassificationOfEmpty ==
    /\ [](\A i \in 1 .. Len(log) :
            log[i].fn \in Classifiers => log[i].size > 0)
    /\ []((Processed /\ size = 0) => (log = <<>> /\ ~touched))
    /\ [][(Deconstructing("entry") /\ Top.contentsSize = 0) =>
            (log' = log /\ touched' = touched /\ ret' = OscErrorContentsEmpty)]_vars

\* C17 witness: an empty element of a bundle was reached; the bundle was
\* classified, the element was not.
C17_Witness ==
    /\ Processed
    /\ error = OscErrorContentsEmpty
    /\ size > 0
    /\ log # <<>>
    /\ log[Len(log)].fn = "OscBundleGetBundleElement"

\* C18: an OscPacketInitialiseFromCharArray that fails for a source larger
\* than the buffer sets size to 0 and changes nothing else, so a handler
\* assigned before it is still assigned and the OscPacketProcessMessages that
\* follows returns OscErrorContentsEmpty.
C18_TooLargeKeepsHandler ==
    /\ [][(op' = "OscPacketInitialiseFromCharArray" /\ nCalls' # nCalls
             /\ Len(arg') > MAX_OSC_PACKET_SIZE) =>
            /\ error' = OscErrorPacketSizeTooLarge
            /\ size' = 0
            /\ contents' = contents
            /\ processMessage' = processMessage]_vars
    /\ []((op = "OscPacketProcessMessages" /\ mode = "idle"
             /\ pre.op = "OscPacketInitialiseFromCharArray"
             /\ pre.error = OscErrorPacketSizeTooLarge) =>
            /\ processMessage = pre.processMessage
            /\ error = IF pre.processMessage = NULL
                       THEN OscErrorCallbackFunctionUndefined
                       ELSE OscErrorContentsEmpty)

\* C18 witness: a handler was assigned, the source was too large, and
\* OscPacketProcessMessages found the packet empty with its handler in place.
C18_Witness ==
    /\ Processed
    /\ pre.op = "OscPacketInitialiseFromCharArray"
    /\ pre.error = OscErrorPacketSizeTooLarge
    /\ processMessage = ProcessMessage
    /\ error = OscErrorContentsEmpty

\* C19: OscPacketInitialiseFromContents given contents that are neither a
\* message nor a bundle returns OscErrorInvalidContents with size and buffer
\* as they were and the handler NULL; OscPacketProcessMessages deconstructs
\* the buffer from its start for size bytes, so what an earlier initialiser
\* stored is what it walks.
C19_InvalidContentsKeepsPacket ==
    /\ [][(op' = "OscPacketInitialiseFromContents" /\ nCalls' # nCalls
             /\ arg'[1] \notin {Slash, Hash}) =>
            /\ error' = OscErrorInvalidContents
            /\ size' = size
            /\ contents' = contents
            /\ processMessage' = NULL]_vars
    /\ []((op = "OscPacketInitialiseFromContents"
             /\ error = OscErrorInvalidContents) => size = pre.size)
    /\ [][(mode = "idle" /\ mode' = "processing") =>
            stack' = <<Frame(NoTimeTag, 0, size)>>]_vars

\* C19 witness: invalid contents were refused by a packet that holds a bundle
\* stored earlier, and the bundle is still there.
C19_Witness ==
    /\ op = "OscPacketInitialiseFromContents"
    /\ error = OscErrorInvalidContents
    /\ pre.size > 2
    /\ size = pre.size
    /\ contents[0] = Hash
    /\ pre.op = "OscPacketInitialiseFromCharArray"

====
